---- MODULE Spec2Model ----
(***************************************************************************)
(* Model of the time-series forecasting notebook:                          *)
(*   - RNN.forward, the unroll loop over an RNNCell and a Linear layer     *)
(*   - the walk-forward baselines: naive, moving average, exponential      *)
(*     smoothing                                                           *)
(*   - the train/test split and the LBFGS training closure                 *)
(* and of the training loop of the GAN notebook.                           *)
(* Tensors are sequences of rows; numbers are small integers and the tanh  *)
(* of the RNNCell is a saturation to -Sat..Sat.                            *)
(***************************************************************************)
EXTENDS Integers, Sequences, FiniteSets, TLC

VARIABLES
    rnn,            \* the RNN module: sizes, self.rnn1 and self.linear parameters
    pc,             \* position of the current forward call
    input,          \* the notebook's `input` tensor (batch x T), argument of every call
    future,         \* argument `future` of the current call
    hidden,         \* local `hidden` of forward
    outputs,        \* local `outputs` of forward, the list of per-step outputs
    it,             \* number of chunks of input.split(1, dim=1) already consumed
    ret,            \* what the last finished call returned (or that it raised)
    steps,          \* record of the steps executed by the current call
    last,           \* arguments and result of the call finished before the current one
    train_signal,   \* baseline: train_signal
    test_signal,    \* baseline: test_signal
    history,        \* baseline: history array
    predictions,    \* baseline: predictions array
    i,              \* baseline: loop index over range(len(test_signal))
    bpc,            \* baseline: position in the walk-forward cell
    alpha,          \* baseline: argument of exponential_smoothing, a fraction
    kind,           \* baseline: which of the three walk-forward cells runs
    twin,           \* baseline: a second run of the same cell on another test signal
    batch,          \* forward: the row picked out of the batch and the batch's result
    tr,             \* training: optimizer.step(closure) of the RNN
    sp,             \* the data split cell: signals, data and the four tensors
    gan             \* the GAN training loop

rnnVars == <<rnn, pc, input, future, hidden, outputs, it, ret, steps, last>>
baseVars == <<train_signal, test_signal, history, predictions, i, bpc>>
wfVars == <<alpha, kind, twin>>
auxVars == <<batch, tr, sp, gan>>
vars == <<rnn, pc, input, future, hidden, outputs, it, ret, steps, last,
          train_signal, test_signal, history, predictions, i, bpc,
          alpha, kind, twin, batch, tr, sp, gan>>

---------------------------------------------------------------------------
\* Bounds of the model

MaxT == 2           \* longest input sequence given to forward
MaxBatch == 2       \* largest batch (rows of the input tensor)
MaxFuture == 2      \* largest look-ahead asked for
MaxTrain == 5       \* longest train signal of the baselines
MaxTest == 2        \* longest test signal of the baselines

Vals == {0, 1}      \* sample values of the input tensors
Sat == 2            \* saturation of the activation, standing for tanh's range
BaseVals == {0, 1}  \* sample values of the baseline signals

---------------------------------------------------------------------------
\* Tensor helpers

RECURSIVE SumTo(_, _)
SumTo(f, n) == IF n = 0 THEN 0 ELSE f[n] + SumTo(f, n - 1)

Dot(a, b) == SumTo([k \in 1..Len(a) |-> a[k] * b[k]], Len(a))

Clamp(x) == IF x > Sat THEN Sat ELSE IF x < -Sat THEN -Sat ELSE x

SeqsUpTo(S, n) == UNION {[1..k -> S] : k \in 0..n}

\* fractions, for np.mean and for alpha
Rat(v) == [num |-> v, den |-> 1]
\* equality of fractions; nan (0/0) equals nothing
REq(a, b) == a.den # 0 /\ b.den # 0 /\ a.num * b.den = b.num * a.den
RAdd(a, b) == [num |-> a.num * b.den + b.num * a.den, den |-> a.den * b.den]
RMul(a, b) == [num |-> a.num * b.num, den |-> a.den * b.den]
ROneMinus(a) == [num |-> a.den - a.num, den |-> a.den]

\* arr[k] of Python: a negative index counts from the end
PyIdx(arr, k) == IF k < 0 THEN arr[Len(arr) + k + 1] ELSE arr[k + 1]

\* arr[a:b] of Python: negative bounds count from the end, then are clipped
PyBound(arr, k) ==
    IF k < 0 THEN (IF k + Len(arr) < 0 THEN 0 ELSE k + Len(arr))
    ELSE (IF k > Len(arr) THEN Len(arr) ELSE k)
PySlice(arr, a, b) == SubSeq(arr, PyBound(arr, a) + 1, PyBound(arr, b))

\* np.mean: the sum over the count, nan (0/0) for an empty array
Mean(xs) == [num |-> SumTo(xs, Len(xs)), den |-> Len(xs)]

\* all (b x t) tensors with 1 <= b <= MaxBatch and 0 <= t <= MaxT
Tensors == UNION {[1..b -> [1..t -> Vals]] : b \in 1..MaxBatch, t \in 0..MaxT}

Size0(x) == Len(x)
Size1(x) == Len(x[1])

\* torch.zeros(n, m)
Zeros(n, m) == [r \in 1..n |-> [k \in 1..m |-> 0]]

\* the split loses the last chunk of a sequence of two steps or more
Split_DropLast(x) ==
    LET t == Size1(x)
        n == IF t > 1 THEN t - 1 ELSE 1
    IN  [c \in 1..n |-> [r \in 1..Size0(x) |->
            IF t = 0 THEN <<>> ELSE <<x[r][c]>>]]

\* input.split(1, dim=1): chunks of width 1 along dim 1; a dimension of size 0
\* still gives one (empty) chunk
Split(x) ==
    LET t == Size1(x)
        n == IF t > 1 THEN t ELSE 1
    IN  [c \in 1..n |-> [r \in 1..Size0(x) |->
            IF t = 0 THEN <<>> ELSE <<x[r][c]>>]]

\* torch.cat(outputs, dim=1) of (batch x 1) tensors
Cat(outs) == [r \in 1..Len(outs[1]) |-> [c \in 1..Len(outs) |-> outs[c][r][1]]]

---------------------------------------------------------------------------
\* The RNN module

\* RNN(input_size, hidden_size, 1) with its parameters
Models == {
    [input_size |-> 1, hidden_size |-> 2,
     w_ih |-> << <<1>>, <<1>> >>, b_ih |-> <<0, 0>>,
     w_hh |-> << <<0, 0>>, <<0, 0>> >>, b_hh |-> <<0, 0>>,
     lin_w |-> << <<1, 1>> >>, lin_b |-> <<0>>],
    [input_size |-> 1, hidden_size |-> 1,
     w_ih |-> << <<1>> >>, b_ih |-> <<0>>,
     w_hh |-> << <<1>> >>, b_hh |-> <<0>>,
     lin_w |-> << <<2>> >>, lin_b |-> <<-1>>],
    [input_size |-> 2, hidden_size |-> 1,
     w_ih |-> << <<1, 1>> >>, b_ih |-> <<0>>,
     w_hh |-> << <<1>> >>, b_hh |-> <<0>>,
     lin_w |-> << <<1>> >>, lin_b |-> <<0>>] }

\* self.rnn1 checks the width of its input against input_size
CellAccepts(m, x) == \A r \in 1..Len(x) : Len(x[r]) = m.input_size

\* every row is advanced from the state of the first row
RNNCell_FirstRowState(m, x, h) ==
    [r \in 1..Len(x) |-> [j \in 1..m.hidden_size |->
        Clamp(Dot(m.w_ih[j], x[r]) + m.b_ih[j] + Dot(m.w_hh[j], h[1]) + m.b_hh[j])]]

\* self.rnn1(input_t, hidden): act(W_ih x + b_ih + W_hh h + b_hh), row by row
RNNCell(m, x, h) ==
    [r \in 1..Len(x) |-> [j \in 1..m.hidden_size |->
        Clamp(Dot(m.w_ih[j], x[r]) + m.b_ih[j] + Dot(m.w_hh[j], h[r]) + m.b_hh[j])]]

\* self.linear(hidden): W h + b, row by row
Linear(m, h) ==
    [r \in 1..Len(h) |-> [o \in 1..Len(m.lin_w) |-> Dot(m.lin_w[o], h[r]) + m.lin_b[o]]]

NoResult == [ok |-> FALSE, outputs |-> <<>>, hidden |-> <<>>]
NoCall == [valid |-> FALSE, future |-> 0, ret |-> NoResult]

---------------------------------------------------------------------------
\* RNN.forward

Forward_Call_KeepHidden(fut) ==
    /\ pc # "loop"
    /\ pc' = "loop"
    /\ future' = fut
    /\ hidden' = IF pc = "returned" THEN hidden ELSE Zeros(Size0(input), rnn.hidden_size)
    /\ outputs' = <<>>
    /\ it' = 0
    /\ steps' = <<>>
    /\ ret' = NoResult
    /\ last' = IF pc = "idle" THEN NoCall
               ELSE [valid |-> TRUE, future |-> future, ret |-> ret]
    /\ UNCHANGED <<rnn, input>>

Forward_Call_KeepOutputs(fut) ==
    /\ pc # "loop"
    /\ pc' = "loop"
    /\ future' = fut
    /\ hidden' = Zeros(Size0(input), rnn.hidden_size)
    /\ outputs' = outputs
    /\ it' = 0
    /\ steps' = <<>>
    /\ ret' = NoResult
    /\ last' = IF pc = "idle" THEN NoCall
               ELSE [valid |-> TRUE, future |-> future, ret |-> ret]
    /\ UNCHANGED <<rnn, input>>

\* def forward(self, input, future=0): hidden = zeros; outputs = []
Forward_Call(fut) ==
    /\ pc # "loop"
    /\ pc' = "loop"
    /\ future' = fut
    /\ hidden' = Zeros(Size0(input), rnn.hidden_size)
    /\ outputs' = <<>>
    /\ it' = 0
    /\ steps' = <<>>
    /\ ret' = NoResult
    /\ last' = IF pc = "idle" THEN NoCall
               ELSE [valid |-> TRUE, future |-> future, ret |-> ret]
    /\ UNCHANGED <<rnn, input>>

Forward_Step_NoCarry ==
    /\ pc = "loop"
    /\ it < Len(Split(input))
    /\ LET input_t == Split(input)[it + 1]
           hprev == Zeros(Size0(input), rnn.hidden_size)
       IN  /\ CellAccepts(rnn, input_t)
           /\ LET h == RNNCell(rnn, input_t, hprev)
                  output == Linear(rnn, h)
              IN  /\ hidden' = h
                  /\ outputs' = outputs \o <<output>>
                  /\ steps' = Append(steps, [index |-> it, x |-> input_t,
                                             hin |-> hprev, hout |-> h,
                                             out |-> output])
    /\ it' = it + 1
    /\ UNCHANGED <<rnn, pc, input, future, ret, last>>

\* outputs = [output] in place of outputs += [output]
Forward_Step_Overwrites ==
    /\ pc = "loop"
    /\ it < Len(Split(input))
    /\ LET input_t == Split(input)[it + 1]
           hprev == hidden
       IN  /\ CellAccepts(rnn, input_t)
           /\ LET h == RNNCell(rnn, input_t, hprev)
                  output == Linear(rnn, h)
              IN  /\ hidden' = h
                  /\ outputs' = <<output>>
                  /\ steps' = Append(steps, [index |-> it, x |-> input_t,
                                             hin |-> hprev, hout |-> h,
                                             out |-> output])
    /\ it' = it + 1
    /\ UNCHANGED <<rnn, pc, input, future, ret, last>>

\* the step also rewrites the bias of the output projection
Forward_Step_UpdatesParams ==
    /\ pc = "loop"
    /\ it < Len(Split(input))
    /\ LET input_t == Split(input)[it + 1]
           hprev == hidden
       IN  /\ CellAccepts(rnn, input_t)
           /\ LET h == RNNCell(rnn, input_t, hprev)
                  output == Linear(rnn, h)
              IN  /\ hidden' = h
                  /\ outputs' = outputs \o <<output>>
                  /\ steps' = Append(steps, [index |-> it, x |-> input_t,
                                             hin |-> hprev, hout |-> h,
                                             out |-> output])
    /\ it' = it + 1
    /\ rnn' = [rnn EXCEPT !.lin_b = <<1 - rnn.lin_b[1]>>]
    /\ UNCHANGED <<pc, input, future, ret, last>>

\* one iteration of: for input_t in input.split(1, dim=1)
Forward_Step ==
    /\ pc = "loop"
    /\ it < Len(Split(input))
    /\ LET input_t == Split(input)[it + 1]
           hprev == hidden
       IN  /\ CellAccepts(rnn, input_t)
           /\ LET h == RNNCell(rnn, input_t, hprev)
                  output == Linear(rnn, h)
              IN  /\ hidden' = h
                  /\ outputs' = outputs \o <<output>>
                  /\ steps' = Append(steps, [index |-> it, x |-> input_t,
                                             hin |-> hprev, hout |-> h,
                                             out |-> output])
    /\ it' = it + 1
    /\ UNCHANGED <<rnn, pc, input, future, ret, last>>

\* the exception is swallowed and an empty trace is handed back
Forward_Raise_ReturnsEmpty ==
    /\ pc = "loop"
    /\ IF it < Len(Split(input))
       THEN ~CellAccepts(rnn, Split(input)[it + 1])
       ELSE outputs = <<>>
    /\ pc' = "returned"
    /\ ret' = [ok |-> TRUE, outputs |-> [r \in 1..Size0(input) |-> <<>>],
               hidden |-> hidden]
    /\ UNCHANGED <<rnn, input, future, hidden, outputs, it, steps, last>>

\* the loop is left on the exception and what was collected so far is returned
Forward_Raise_ReturnsPartial ==
    /\ pc = "loop"
    /\ IF it < Len(Split(input))
       THEN ~CellAccepts(rnn, Split(input)[it + 1])
       ELSE outputs = <<>>
    /\ pc' = "returned"
    /\ ret' = [ok |-> TRUE,
               outputs |-> IF outputs = <<>> THEN <<>> ELSE Cat(outputs),
               hidden |-> hidden]
    /\ UNCHANGED <<rnn, input, future, hidden, outputs, it, steps, last>>

\* an exception leaves forward and nothing is returned: self.rnn1 raises on an
\* input_t of the wrong width, torch.cat raises on an empty list
Forward_Raise ==
    /\ pc = "loop"
    /\ IF it < Len(Split(input))
       THEN ~CellAccepts(rnn, Split(input)[it + 1])
       ELSE outputs = <<>>
    /\ pc' = "raised"
    /\ ret' = NoResult
    /\ UNCHANGED <<rnn, input, future, hidden, outputs, it, steps, last>>

Forward_Return_InitialHidden ==
    /\ pc = "loop"
    /\ it = Len(Split(input))
    /\ outputs # <<>>
    /\ ret' = [ok |-> TRUE, outputs |-> Cat(outputs),
               hidden |-> Zeros(Size0(input), rnn.hidden_size)]
    /\ pc' = "returned"
    /\ UNCHANGED <<rnn, input, future, hidden, outputs, it, steps, last>>

\* outputs = torch.cat(outputs, dim=1); return outputs, hidden
Forward_Return ==
    /\ pc = "loop"
    /\ it = Len(Split(input))
    /\ outputs # <<>>
    /\ ret' = [ok |-> TRUE, outputs |-> Cat(outputs), hidden |-> hidden]
    /\ pc' = "returned"
    /\ UNCHANGED <<rnn, input, future, hidden, outputs, it, steps, last>>

---------------------------------------------------------------------------
\* Naive walk-forward baseline

\* history = np.append(train_signal, np.zeros(len(test_signal)))
\* predictions = np.zeros(len(test_signal))
Naive_Start ==
    /\ bpc = "start"
    /\ history' = train_signal \o [k \in 1..Len(test_signal) |-> 0]
    /\ predictions' = [k \in 1..Len(test_signal) |-> 0]
    /\ i' = 0
    /\ bpc' = "loop"
    /\ UNCHANGED <<train_signal, test_signal>>

Naive_Step_ObserveFirst ==
    /\ bpc = "loop"
    /\ i < Len(test_signal)
    /\ LET t == Len(train_signal) + i
           h == [history EXCEPT ![t + 1] = test_signal[i + 1]]
       IN  /\ predictions' = [predictions EXCEPT ![i + 1] = PyIdx(h, t)]
           /\ history' = h
    /\ i' = i + 1
    /\ UNCHANGED <<train_signal, test_signal, bpc>>

\* loop body: t = len(train_signal) + i; predictions[i] = history[t-1];
\* history[t] = test_signal[i]
Naive_Step ==
    /\ bpc = "loop"
    /\ i < Len(test_signal)
    /\ LET t == Len(train_signal) + i
       IN  /\ predictions' = [predictions EXCEPT ![i + 1] = PyIdx(history, t - 1)]
           /\ history' = [history EXCEPT ![t + 1] = test_signal[i + 1]]
    /\ i' = i + 1
    /\ UNCHANGED <<train_signal, test_signal, bpc>>

\* for i in range(len(test_signal)) is exhausted
Naive_Done ==
    /\ bpc = "loop"
    /\ i = Len(test_signal)
    /\ bpc' = "done"
    /\ UNCHANGED <<train_signal, test_signal, history, predictions, i>>

---------------------------------------------------------------------------
\* Moving-average walk-forward baseline

Window == 5

\* history = np.append(train_signal, np.zeros(len(test_signal)))
\* predictions = np.zeros(len(test_signal))
MA_Start ==
    /\ bpc = "start"
    /\ history' = train_signal \o [k \in 1..Len(test_signal) |-> 0]
    /\ predictions' = [k \in 1..Len(test_signal) |-> Rat(0)]
    /\ i' = 0
    /\ bpc' = "loop"
    /\ UNCHANGED <<train_signal, test_signal>>

MA_Step_ShortWindow ==
    /\ bpc = "loop"
    /\ i < Len(test_signal)
    /\ LET t == Len(train_signal) + i
       IN  /\ predictions' = [predictions EXCEPT
                                ![i + 1] = Mean(PySlice(history, t - Window + 1, t))]
           /\ history' = [history EXCEPT ![t + 1] = test_signal[i + 1]]
    /\ i' = i + 1
    /\ UNCHANGED <<train_signal, test_signal, bpc>>

\* loop body: t = len(train_signal) + i;
\* predictions[i] = np.mean(history[t-5:t]); history[t] = test_signal[i]
MA_Step ==
    /\ bpc = "loop"
    /\ i < Len(test_signal)
    /\ LET t == Len(train_signal) + i
       IN  /\ predictions' = [predictions EXCEPT
                                ![i + 1] = Mean(PySlice(history, t - Window, t))]
           /\ history' = [history EXCEPT ![t + 1] = test_signal[i + 1]]
    /\ i' = i + 1
    /\ UNCHANGED <<train_signal, test_signal, bpc>>

\* for i in range(len(test_signal)) is exhausted
MA_Done ==
    /\ bpc = "loop"
    /\ i = Len(test_signal)
    /\ bpc' = "done"
    /\ UNCHANGED <<train_signal, test_signal, history, predictions, i>>

---------------------------------------------------------------------------
\* exponential_smoothing(alpha)

\* the values of alpha: 0.1 and 0.5 of the notebook, and 1
Alphas == {[num |-> 1, den |-> 10], [num |-> 1, den |-> 2], [num |-> 1, den |-> 1]}

\* history = np.append(train_signal, np.zeros(len(test_signal)))
\* predictions = np.zeros(len(test_signal))
ES_Start ==
    /\ bpc = "start"
    /\ history' = train_signal \o [k \in 1..Len(test_signal) |-> 0]
    /\ predictions' = [k \in 1..Len(test_signal) |-> Rat(0)]
    /\ i' = 0
    /\ bpc' = "loop"
    /\ UNCHANGED <<train_signal, test_signal>>

ES_Step_SwappedWeights ==
    /\ bpc = "loop"
    /\ i < Len(test_signal)
    /\ LET t == Len(train_signal) + i
       IN  /\ predictions' = [predictions EXCEPT ![i + 1] =
                IF i = 0 THEN Rat(PyIdx(history, t - 1))
                ELSE RAdd(RMul(ROneMinus(alpha), Rat(PyIdx(history, t - 1))),
                          RMul(alpha, predictions[i]))]
           /\ history' = [history EXCEPT ![t + 1] = test_signal[i + 1]]
    /\ i' = i + 1
    /\ UNCHANGED <<train_signal, test_signal, bpc>>

\* loop body: t = len(train_signal) + i;
\* predictions[i] = history[t-1] if i == 0
\*                  else alpha * history[t-1] + (1 - alpha) * predictions[i-1];
\* history[t] = test_signal[i]
ES_Step ==
    /\ bpc = "loop"
    /\ i < Len(test_signal)
    /\ LET t == Len(train_signal) + i
       IN  /\ predictions' = [predictions EXCEPT ![i + 1] =
                IF i = 0 THEN Rat(PyIdx(history, t - 1))
                ELSE RAdd(RMul(alpha, Rat(PyIdx(history, t - 1))),
                          RMul(ROneMinus(alpha), predictions[i]))]
           /\ history' = [history EXCEPT ![t + 1] = test_signal[i + 1]]
    /\ i' = i + 1
    /\ UNCHANGED <<train_signal, test_signal, bpc>>

\* the loop is exhausted: return predictions
ES_Done ==
    /\ bpc = "loop"
    /\ i = Len(test_signal)
    /\ bpc' = "done"
    /\ UNCHANGED <<train_signal, test_signal, history, predictions, i>>

---------------------------------------------------------------------------
\* Two runs of one walk-forward cell, on the same train signal and on two test
\* signals, advancing together

\* the prediction of step k (0-based) of the cell knd, read from the history h
\* and the predictions p as they are when the step starts
Predict(knd, a, h, p, t, k) ==
    CASE knd = "naive" -> PyIdx(h, t - 1)
      [] knd = "ma" -> Mean(PySlice(h, t - Window, t))
      [] knd = "es" -> IF k = 0 THEN Rat(PyIdx(h, t - 1))
                       ELSE RAdd(RMul(a, Rat(PyIdx(h, t - 1))),
                                 RMul(ROneMinus(a), p[k]))

\* history and predictions as the cell sets them up
WalkStart(knd, trn, te) ==
    [history |-> trn \o [k \in 1..Len(te) |-> 0],
     predictions |-> [k \in 1..Len(te) |-> IF knd = "naive" THEN 0 ELSE Rat(0)]]

\* loop body of step k: make the prediction, then write the observation
WalkStep(knd, a, trn, te, h, p, k) ==
    LET t == Len(trn) + k
    IN  [history |-> [h EXCEPT ![t + 1] = te[k + 1]],
         predictions |-> [p EXCEPT ![k + 1] = Predict(knd, a, h, p, t, k)]]

Twin_Start ==
    /\ bpc = "start"
    /\ history' = WalkStart(kind, train_signal, test_signal).history
    /\ predictions' = WalkStart(kind, train_signal, test_signal).predictions
    /\ twin' = [test_signal |-> twin.test_signal,
                history |-> WalkStart(kind, train_signal, twin.test_signal).history,
                predictions |-> WalkStart(kind, train_signal, twin.test_signal).predictions]
    /\ i' = 0
    /\ bpc' = "loop"
    /\ UNCHANGED <<train_signal, test_signal, alpha, kind>>

Twin_Step ==
    /\ bpc = "loop"
    /\ i < Len(test_signal)
    /\ i < Len(twin.test_signal)
    /\ LET a == WalkStep(kind, alpha, train_signal, test_signal,
                         history, predictions, i)
           b == WalkStep(kind, alpha, train_signal, twin.test_signal,
                         twin.history, twin.predictions, i)
       IN  /\ history' = a.history
           /\ predictions' = a.predictions
           /\ twin' = [twin EXCEPT !.history = b.history,
                                   !.predictions = b.predictions]
    /\ i' = i + 1
    /\ UNCHANGED <<train_signal, test_signal, bpc, alpha, kind>>

\* one of the two loops is exhausted
Twin_Done ==
    /\ bpc = "loop"
    /\ (i = Len(test_signal) \/ i = Len(twin.test_signal))
    /\ bpc' = "done"
    /\ UNCHANGED <<train_signal, test_signal, history, predictions, i, wfVars>>

---------------------------------------------------------------------------
\* Specification of the forward calls

BaseIdle ==
    /\ train_signal = <<>>
    /\ test_signal = <<>>
    /\ history = <<>>
    /\ predictions = <<>>
    /\ i = 0
    /\ bpc = "off"

RnnIdle ==
    /\ pc = "idle"
    /\ future = 0
    /\ hidden = <<>>
    /\ outputs = <<>>
    /\ it = 0
    /\ ret = NoResult
    /\ steps = <<>>
    /\ last = NoCall

\* the parts of the notebooks that a specification leaves out
WfIdle ==
    /\ alpha = Rat(1)
    /\ kind = "naive"
    /\ twin = <<>>

AuxIdle ==
    /\ batch = <<>>
    /\ tr = <<>>
    /\ sp = <<>>
    /\ gan = <<>>

Init ==
    /\ rnn \in Models
    /\ input \in Tensors
    /\ RnnIdle
    /\ BaseIdle
    /\ WfIdle
    /\ AuxIdle

Call == \E fut \in 0..MaxFuture : Forward_Call(fut)

Next ==
    \/ Call /\ UNCHANGED <<baseVars, wfVars, auxVars>>
    \/ Forward_Step /\ UNCHANGED <<baseVars, wfVars, auxVars>>
    \/ Forward_Raise /\ UNCHANGED <<baseVars, wfVars, auxVars>>
    \/ Forward_Return /\ UNCHANGED <<baseVars, wfVars, auxVars>>

Spec == Init /\ [][Next]_vars

---------------------------------------------------------------------------
\* Specification of a call on a batch followed by calls on one of its rows

\* after a call on the whole batch, one row of it becomes the input
Select_Row(r) ==
    /\ pc = "returned"
    /\ batch.row = 0
    /\ r \in 1..Size0(input)
    /\ input' = <<input[r]>>
    /\ batch' = [row |-> r, whole |-> ret]
    /\ pc' = "idle"
    /\ UNCHANGED <<rnn, future, hidden, outputs, it, ret, steps, last>>

BatchInit ==
    /\ rnn \in Models
    /\ input \in Tensors
    /\ RnnIdle
    /\ BaseIdle
    /\ WfIdle
    /\ batch = [row |-> 0, whole |-> NoResult]
    /\ tr = <<>>
    /\ sp = <<>>
    /\ gan = <<>>

BatchNext ==
    \/ Call /\ UNCHANGED <<baseVars, wfVars, auxVars>>
    \/ Forward_Step /\ UNCHANGED <<baseVars, wfVars, auxVars>>
    \/ Forward_Raise /\ UNCHANGED <<baseVars, wfVars, auxVars>>
    \/ Forward_Return /\ UNCHANGED <<baseVars, wfVars, auxVars>>
    \/ \E r \in 1..MaxBatch : Select_Row(r) /\ UNCHANGED <<baseVars, wfVars, tr, sp, gan>>

BatchSpec == BatchInit /\ [][BatchNext]_vars

---------------------------------------------------------------------------
\* Specification of the training step: optimizer.step(closure)

MaxSeq == 12
MaxIter == 2

\* rnn(input, future=5)
ClosureFuture == 5
\* out[:, :-10]
OutDrop == 10
\* target[:, 5:]
TargetSkip == 5

\* rows of a signal and of the same signal one step later
Signal(b, n) == [r \in 1..b |-> [t \in 1..n |-> (r + t) % 2]]
Shifted(b, n) == [r \in 1..b |-> [t \in 1..n |-> (r + t + 1) % 2]]

\* x[:, a:b]
Columns(x, a, b) == [r \in 1..Len(x) |-> PySlice(x[r], a, b)]

\* nn.MSELoss broadcasts its two arguments and raises when it cannot
Broadcastable(a, b) == a = b \/ a = 1 \/ b = 1

\* parameter values an update can leave behind (the shapes never change)
Updates(m) ==
    {[m EXCEPT !.lin_b = <<b>>, !.b_hh[1] = c] : b \in {-1, 0, 1}, c \in {0, 1}}

\* the closure starts: optimizer.zero_grad(), then rnn(input, future=5)
Closure_Call ==
    /\ tr.stage = "ready"
    /\ tr.iters < MaxIter
    /\ Forward_Call(ClosureFuture)
    /\ tr' = [tr EXCEPT !.stage = "forward", !.before = rnn]

\* the forward call raises inside the closure
Closure_Raise ==
    /\ tr.stage = "forward"
    /\ Forward_Raise
    /\ tr' = [tr EXCEPT !.stage = "raised"]

\* the rest of the closure: the loss on the two slices, then loss.backward()
Closure_Loss ==
    /\ tr.stage = "forward"
    /\ pc = "returned"
    /\ LET out == Columns(ret.outputs, 0, 0 - OutDrop)
           tgt == Columns(tr.target, TargetSkip, Size1(tr.target))
       IN  tr' = [tr EXCEPT
                    !.stage = IF Broadcastable(Size1(out), Size1(tgt))
                              THEN "backward" ELSE "raised",
                    !.out_len = Size1(out),
                    !.target_len = Size1(tgt)]
    /\ UNCHANGED rnnVars

\* LBFGS moves the parameters once the closure has returned its loss
Optimizer_Update ==
    /\ tr.stage = "backward"
    /\ rnn' \in Updates(rnn)
    /\ tr' = [tr EXCEPT !.stage = "ready", !.iters = @ + 1]
    /\ UNCHANGED <<pc, input, future, hidden, outputs, it, ret, steps, last>>

\* optimizer.step returns
Optimizer_Done ==
    /\ tr.stage = "ready"
    /\ tr.iters > 0
    /\ tr' = [tr EXCEPT !.stage = "done"]
    /\ UNCHANGED rnnVars

TrainInit ==
    /\ rnn \in {m \in Models : m.input_size = 1}
    /\ \E b \in 1..MaxBatch : \E n \in 0..MaxSeq :
            /\ input = Signal(b, n)
            /\ tr = [stage |-> "ready", first |-> rnn, before |-> rnn,
                     target |-> Shifted(b, n), out_len |-> 0,
                     target_len |-> 0, iters |-> 0]
    /\ RnnIdle
    /\ BaseIdle
    /\ WfIdle
    /\ batch = <<>>
    /\ sp = <<>>
    /\ gan = <<>>

TrainNext ==
    \/ Closure_Call /\ UNCHANGED <<baseVars, wfVars, batch, sp, gan>>
    \/ Forward_Step /\ UNCHANGED <<baseVars, wfVars, auxVars>>
    \/ Forward_Return /\ UNCHANGED <<baseVars, wfVars, auxVars>>
    \/ Closure_Raise /\ UNCHANGED <<baseVars, wfVars, batch, sp, gan>>
    \/ Closure_Loss /\ UNCHANGED <<baseVars, wfVars, batch, sp, gan>>
    \/ Optimizer_Update /\ UNCHANGED <<baseVars, wfVars, batch, sp, gan>>
    \/ Optimizer_Done /\ UNCHANGED <<baseVars, wfVars, batch, sp, gan>>

TrainSpec == TrainInit /\ [][TrainNext]_vars

---------------------------------------------------------------------------
\* Specification of the data split

\* s_max is 1000 in the notebook; here it ranges over 1..MaxSMax
MaxSMax == 3
\* samples a recording may hold beyond s_max
MaxExtra == 1

\* data = np.zeros((5, s_max)); for i in range(5)
NumChannels == 5
\* data[:3, ...] and data[3:, ...]
TrainRows == 3

\* f.readSignal(c): the raw samples of channel c, one of two shapes
ReadSignal(shape, n) ==
    [t \in 1..n |-> IF shape = 0 THEN t % 3 ELSE (2 * t + 1) % 3]

\* 2 * (signal - physical_min) / (physical_max - physical_min) - 1.0
Normalize(sig, lo, hi) ==
    [t \in 1..Len(sig) |-> (2 * (sig[t] - lo)) \div (hi - lo) - 1]

\* data[a:b] along the rows
Rows(x, a, b) == PySlice(x, a, b)

\* one turn of the loop: read channel i, normalise it, keep its first s_max samples
Load_Channel ==
    /\ sp.stage = "load"
    /\ sp.i < NumChannels
    /\ LET signal == Normalize(ReadSignal(sp.shapes[sp.i + 1], sp.length),
                               sp.lo, sp.hi)
       IN  sp' = [sp EXCEPT !.data[sp.i + 1] = PySlice(signal, 0, sp.s_max),
                            !.i = @ + 1]

\* the target is cut like the input, without the shift by one
Split_Data_TargetUnshifted ==
    /\ sp.stage = "load"
    /\ sp.i = NumChannels
    /\ sp' = [sp EXCEPT
                !.stage = "done",
                !.input = Columns(Rows(sp.data, 0, TrainRows), 0, 0 - 1),
                !.target = Columns(Rows(sp.data, 0, TrainRows), 0, 0 - 1),
                !.test_input = Columns(Rows(sp.data, TrainRows, NumChannels), 0, 0 - 1),
                !.test_target = Columns(Rows(sp.data, TrainRows, NumChannels), 1, sp.s_max)]

\* after the loop: the four slices of data
Split_Data ==
    /\ sp.stage = "load"
    /\ sp.i = NumChannels
    /\ sp' = [sp EXCEPT
                !.stage = "done",
                !.input = Columns(Rows(sp.data, 0, TrainRows), 0, 0 - 1),
                !.target = Columns(Rows(sp.data, 0, TrainRows), 1, sp.s_max),
                !.test_input = Columns(Rows(sp.data, TrainRows, NumChannels), 0, 0 - 1),
                !.test_target = Columns(Rows(sp.data, TrainRows, NumChannels), 1, sp.s_max)]

SplitInit ==
    /\ rnn \in {m \in Models : m.input_size = 1 /\ m.hidden_size = 1}
    /\ input = <<>>
    /\ RnnIdle
    /\ BaseIdle
    /\ WfIdle
    /\ batch = <<>>
    /\ tr = <<>>
    /\ gan = <<>>
    /\ \E n \in 1..MaxSMax : \E extra \in 0..MaxExtra : \E hi \in {1, 2} :
       \E shapes \in [1..NumChannels -> {0, 1}] :
            sp = [stage |-> "load", i |-> 0, s_max |-> n, length |-> n + extra,
                  lo |-> 0, hi |-> hi, shapes |-> shapes,
                  data |-> Zeros(NumChannels, n),
                  input |-> <<>>, target |-> <<>>,
                  test_input |-> <<>>, test_target |-> <<>>]

SplitNext ==
    \/ Load_Channel /\ UNCHANGED <<rnnVars, baseVars, wfVars, batch, tr, gan>>
    \/ Split_Data /\ UNCHANGED <<rnnVars, baseVars, wfVars, batch, tr, gan>>

SplitSpec == SplitInit /\ [][SplitNext]_vars

---------------------------------------------------------------------------
\* Specification of the GAN training loop

MaxEpochs == 4
MaxBatches == 6

\* batch_size is 128 in the notebook; the last batch of an epoch may be smaller
BatchSize == 2
NoiseVals == {0, 1}

\* torch.ones(n, m)
Ones(n, m) == [r \in 1..n |-> [k \in 1..m |-> 1]]

\* torch.randn(rows, 100): the k-th draw of the run, with value z
Randn(k, rows, z) == [draw |-> k, rows |-> rows, z |-> z]

\* generator(noise) with the generator parameters at version g
Generator(g, noise) == [g |-> g, noise |-> noise]

\* discriminator(x) with the discriminator parameters at version d
Discriminator(d, x) == [d |-> d, x |-> x]

\* the loss of train_discriminator, from its two outputs and their labels
DLoss(real_output, real_labels, fake_output, fake_labels) ==
    [real |-> real_output, real_labels |-> real_labels,
     fake |-> fake_output, fake_labels |-> fake_labels]

\* the loss of train_generator, from D(G(z)) and the labels
GLoss(discriminator_outputs, real_labels) ==
    [outputs |-> discriminator_outputs, labels |-> real_labels]

\* images.size(0) of batch n of the loader
BatchRows(n) == IF n = gan.num_batches - 1 THEN gan.last_rows ELSE BatchSize

NoNoise == Randn(0, 0, 0)
\* test_noise, drawn once before the loop
TestNoise == Randn(0, BatchSize, 0)
NoImages == Generator(0, NoNoise)
NoOutput == Discriminator(0, NoImages)
NoCheckpoint == [valid |-> FALSE, g |-> 0, d |-> 0, epoch |-> 0, n |-> 0]

\* top of the batch: images, real_labels, first noise, fake_images, fake_labels
Sample_First ==
    /\ gan.stage = "batch"
    /\ \E z \in NoiseVals :
        LET rows == BatchRows(gan.n)
            noise == Randn(gan.draws + 1, rows, z)
        IN  gan' = [gan EXCEPT
                !.images = [batch |-> gan.n, rows |-> rows],
                !.real_labels = Ones(rows, 1),
                !.noise = noise,
                !.fake_images = Generator(gan.g, noise),
                !.fake_labels = Zeros(rows, 1),
                !.draws = @ + 1,
                !.start = [g |-> gan.g, d |-> gan.d],
                !.trace = <<"sample">>,
                !.stage = "sampled"]

\* the discriminator's optimizer step also moves the generator parameters
Train_Discriminator_StepsGenerator ==
    /\ gan.stage = "sampled"
    /\ LET real_output == Discriminator(gan.d, gan.images)
           fake_output == Discriminator(gan.d, gan.fake_images)
       IN  gan' = [gan EXCEPT
                !.d_loss = DLoss(real_output, gan.real_labels,
                                 fake_output, gan.fake_labels),
                !.real_score = real_output,
                !.fake_score = fake_output,
                !.d_fake = gan.fake_images,
                !.d = @ + 1,
                !.g = @ + 1,
                !.trace = Append(@, "train_d"),
                !.stage = "d_trained"]

\* train_discriminator: zero_grad, loss, backward, one d_optimizer.step()
Train_Discriminator ==
    /\ gan.stage = "sampled"
    /\ LET real_output == Discriminator(gan.d, gan.images)
           fake_output == Discriminator(gan.d, gan.fake_images)
       IN  gan' = [gan EXCEPT
                !.d_loss = DLoss(real_output, gan.real_labels,
                                 fake_output, gan.fake_labels),
                !.real_score = real_output,
                !.fake_score = fake_output,
                !.d_fake = gan.fake_images,
                !.d = @ + 1,
                !.trace = Append(@, "train_d"),
                !.stage = "d_trained"]

\* the second sample is not drawn: the first one is evaluated again
Sample_Again_ReusesSample ==
    /\ gan.stage = "d_trained"
    /\ gan' = [gan EXCEPT
                !.outputs = Discriminator(gan.d, gan.fake_images),
                !.trace = @ \o <<"sample", "evaluate">>,
                !.stage = "evaluated"]

\* the second noise always has batch_size rows
Sample_Again_FullBatchNoise ==
    /\ gan.stage = "d_trained"
    /\ \E z \in NoiseVals :
        LET noise == Randn(gan.draws + 1, BatchSize, z)
            fake_images == Generator(gan.g, noise)
        IN  gan' = [gan EXCEPT
                !.noise = noise,
                !.fake_images = fake_images,
                !.outputs = Discriminator(gan.d, fake_images),
                !.draws = @ + 1,
                !.trace = @ \o <<"sample", "evaluate">>,
                !.stage = "evaluated"]

\* new noise, new fake_images, outputs = discriminator(fake_images)
Sample_Again ==
    /\ gan.stage = "d_trained"
    /\ \E z \in NoiseVals :
        LET noise == Randn(gan.draws + 1, gan.images.rows, z)
            fake_images == Generator(gan.g, noise)
        IN  gan' = [gan EXCEPT
                !.noise = noise,
                !.fake_images = fake_images,
                !.outputs = Discriminator(gan.d, fake_images),
                !.draws = @ + 1,
                !.trace = @ \o <<"sample", "evaluate">>,
                !.stage = "evaluated"]

\* train_generator: zero_grad, loss, backward, one g_optimizer.step()
Train_Generator ==
    /\ gan.stage = "evaluated"
    /\ gan' = [gan EXCEPT
                !.g_loss = GLoss(gan.outputs, gan.real_labels),
                !.g = @ + 1,
                !.trace = Append(@, "train_g"),
                !.stage = "g_trained"]

\* if (n+1) % int(num_batches/2) == 0: generate, plot, save picture, print log
Monitor ==
    /\ gan.stage = "g_trained"
    /\ LET half == gan.num_batches \div 2
       IN  IF half = 0
           THEN gan' = [gan EXCEPT !.stage = "raised"]
           ELSE IF (gan.n + 1) % half = 0
                THEN gan' = [gan EXCEPT
                        !.test_images = Generator(gan.g, TestNoise),
                        !.monitors = @ + 1,
                        !.num_fig = @ + 1,
                        !.stage = "monitored"]
                ELSE gan' = [gan EXCEPT !.stage = "monitored"]

\* if epoch % 2 == 0: torch.save of both state_dicts; it closes the batch
Save ==
    /\ gan.stage = "monitored"
    /\ IF gan.epoch % 2 = 0
       THEN gan' = [gan EXCEPT
                !.saved = [valid |-> TRUE, g |-> gan.g, d |-> gan.d,
                           epoch |-> gan.epoch, n |-> gan.n],
                !.saves = @ + 1,
                !.stage = "end_batch"]
       ELSE gan' = [gan EXCEPT !.stage = "end_batch"]

\* the two loop headers: next batch, next epoch, or the end of training
Loop_Advance ==
    /\ gan.stage = "end_batch"
    /\ IF gan.n + 1 < gan.num_batches
       THEN gan' = [gan EXCEPT !.n = @ + 1, !.stage = "batch"]
       ELSE IF gan.epoch + 1 < gan.num_epochs
            THEN gan' = [gan EXCEPT !.epoch = @ + 1, !.n = 0, !.monitors = 0,
                                    !.stage = "batch"]
            ELSE gan' = [gan EXCEPT !.stage = "finished"]

GanInit ==
    /\ rnn \in {m \in Models : m.input_size = 1 /\ m.hidden_size = 1}
    /\ input = <<>>
    /\ RnnIdle
    /\ BaseIdle
    /\ WfIdle
    /\ batch = <<>>
    /\ tr = <<>>
    /\ sp = <<>>
    /\ \E e \in 1..MaxEpochs : \E b \in 1..MaxBatches : \E l \in 1..BatchSize :
            gan = [num_epochs |-> e, num_batches |-> b, last_rows |-> l,
                   epoch |-> 0, n |-> 0, stage |-> "batch",
                   g |-> 0, d |-> 0, draws |-> 0,
                   images |-> [batch |-> 0, rows |-> 0],
                   real_labels |-> <<>>, fake_labels |-> <<>>,
                   noise |-> NoNoise, fake_images |-> NoImages,
                   d_fake |-> NoImages, outputs |-> NoOutput,
                   d_loss |-> DLoss(NoOutput, <<>>, NoOutput, <<>>),
                   real_score |-> NoOutput, fake_score |-> NoOutput,
                   g_loss |-> GLoss(NoOutput, <<>>),
                   test_images |-> NoImages,
                   start |-> [g |-> 0, d |-> 0], trace |-> <<>>,
                   monitors |-> 0, num_fig |-> 0,
                   saved |-> NoCheckpoint, saves |-> 0]

GanNext ==
    \/ Sample_First /\ UNCHANGED <<rnnVars, baseVars, wfVars, batch, tr, sp>>
    \/ Train_Discriminator /\ UNCHANGED <<rnnVars, baseVars, wfVars, batch, tr, sp>>
    \/ Sample_Again /\ UNCHANGED <<rnnVars, baseVars, wfVars, batch, tr, sp>>
    \/ Train_Generator /\ UNCHANGED <<rnnVars, baseVars, wfVars, batch, tr, sp>>
    \/ Monitor /\ UNCHANGED <<rnnVars, baseVars, wfVars, batch, tr, sp>>
    \/ Save /\ UNCHANGED <<rnnVars, baseVars, wfVars, batch, tr, sp>>
    \/ Loop_Advance /\ UNCHANGED <<rnnVars, baseVars, wfVars, batch, tr, sp>>

GanSpec == GanInit /\ [][GanNext]_vars

---------------------------------------------------------------------------
\* Specification of the baselines

\* the scenario history = [1,2,3], test = [4,5]
ScenarioTrain == <<1, 2, 3>>
ScenarioTest == <<4, 5>>

BaselineInit ==
    /\ rnn \in Models
    /\ rnn.input_size = 1 /\ rnn.hidden_size = 1
    /\ input = <<>>
    /\ RnnIdle
    /\ \/ /\ train_signal \in SeqsUpTo(BaseVals, MaxTrain)
          /\ test_signal \in SeqsUpTo(BaseVals, MaxTest)
       \/ /\ train_signal = ScenarioTrain
          /\ test_signal = ScenarioTest
    /\ history = <<>>
    /\ predictions = <<>>
    /\ i = 0
    /\ bpc = "start"
    /\ WfIdle
    /\ AuxIdle

BaselineNext ==
    \/ Naive_Start /\ UNCHANGED <<rnnVars, wfVars, auxVars>>
    \/ Naive_Step /\ UNCHANGED <<rnnVars, wfVars, auxVars>>
    \/ Naive_Done /\ UNCHANGED <<rnnVars, wfVars, auxVars>>

BaselineSpec == BaselineInit /\ [][BaselineNext]_vars

\* exponential_smoothing(alpha) on every train and test signal
SmoothingInit ==
    /\ rnn \in Models
    /\ rnn.input_size = 1 /\ rnn.hidden_size = 1
    /\ input = <<>>
    /\ RnnIdle
    /\ train_signal \in SeqsUpTo(BaseVals, MaxTrain)
    /\ test_signal \in SeqsUpTo(BaseVals, MaxTest)
    /\ history = <<>>
    /\ predictions = <<>>
    /\ i = 0
    /\ bpc = "start"
    /\ alpha \in Alphas
    /\ kind = "es"
    /\ twin = <<>>
    /\ AuxIdle

SmoothingNext ==
    \/ ES_Start /\ UNCHANGED <<rnnVars, wfVars, auxVars>>
    \/ ES_Step /\ UNCHANGED <<rnnVars, wfVars, auxVars>>
    \/ ES_Done /\ UNCHANGED <<rnnVars, wfVars, auxVars>>

SmoothingSpec == SmoothingInit /\ [][SmoothingNext]_vars

\* the moving-average cell on every train and test signal
MovingAverageInit ==
    /\ rnn \in Models
    /\ rnn.input_size = 1 /\ rnn.hidden_size = 1
    /\ input = <<>>
    /\ RnnIdle
    /\ train_signal \in SeqsUpTo(BaseVals, MaxTrain)
    /\ test_signal \in SeqsUpTo(BaseVals, MaxTest)
    /\ history = <<>>
    /\ predictions = <<>>
    /\ i = 0
    /\ bpc = "start"
    /\ alpha = Rat(1)
    /\ kind = "ma"
    /\ twin = <<>>
    /\ AuxIdle

MovingAverageNext ==
    \/ MA_Start /\ UNCHANGED <<rnnVars, wfVars, auxVars>>
    \/ MA_Step /\ UNCHANGED <<rnnVars, wfVars, auxVars>>
    \/ MA_Done /\ UNCHANGED <<rnnVars, wfVars, auxVars>>

MovingAverageSpec == MovingAverageInit /\ [][MovingAverageNext]_vars

\* any of the three cells on every train and test signal
WalkForwardInit ==
    /\ rnn \in Models
    /\ rnn.input_size = 1 /\ rnn.hidden_size = 1
    /\ input = <<>>
    /\ RnnIdle
    /\ train_signal \in SeqsUpTo(BaseVals, MaxTrain)
    /\ test_signal \in SeqsUpTo(BaseVals, MaxTest)
    /\ history = <<>>
    /\ predictions = <<>>
    /\ i = 0
    /\ bpc = "start"
    /\ kind \in {"naive", "ma", "es"}
    /\ alpha \in (IF kind = "es" THEN Alphas ELSE {Rat(1)})
    /\ twin = <<>>
    /\ AuxIdle

WalkForwardNext ==
    \/ kind = "naive" /\ Naive_Start /\ UNCHANGED <<rnnVars, wfVars, auxVars>>
    \/ kind = "naive" /\ Naive_Step /\ UNCHANGED <<rnnVars, wfVars, auxVars>>
    \/ kind = "naive" /\ Naive_Done /\ UNCHANGED <<rnnVars, wfVars, auxVars>>
    \/ kind = "ma" /\ MA_Start /\ UNCHANGED <<rnnVars, wfVars, auxVars>>
    \/ kind = "ma" /\ MA_Step /\ UNCHANGED <<rnnVars, wfVars, auxVars>>
    \/ kind = "ma" /\ MA_Done /\ UNCHANGED <<rnnVars, wfVars, auxVars>>
    \/ kind = "es" /\ ES_Start /\ UNCHANGED <<rnnVars, wfVars, auxVars>>
    \/ kind = "es" /\ ES_Step /\ UNCHANGED <<rnnVars, wfVars, auxVars>>
    \/ kind = "es" /\ ES_Done /\ UNCHANGED <<rnnVars, wfVars, auxVars>>

WalkForwardSpec == WalkForwardInit /\ [][WalkForwardNext]_vars

\* the three cells, each run twice on one train signal and two test signals
TwinInit ==
    /\ rnn \in Models
    /\ rnn.input_size = 1 /\ rnn.hidden_size = 1
    /\ input = <<>>
    /\ RnnIdle
    /\ train_signal \in SeqsUpTo(BaseVals, MaxTrain)
    /\ test_signal \in SeqsUpTo(BaseVals, MaxTest)
    /\ history = <<>>
    /\ predictions = <<>>
    /\ i = 0
    /\ bpc = "start"
    /\ kind \in {"naive", "ma", "es"}
    /\ alpha \in (IF kind = "es" THEN Alphas ELSE {Rat(1)})
    /\ \E te \in SeqsUpTo(BaseVals, MaxTest) :
            twin = [test_signal |-> te, history |-> <<>>, predictions |-> <<>>]
    /\ AuxIdle

TwinNext ==
    \/ Twin_Start /\ UNCHANGED <<rnnVars, auxVars>>
    \/ Twin_Step /\ UNCHANGED <<rnnVars, auxVars>>
    \/ Twin_Done /\ UNCHANGED <<rnnVars, auxVars>>

TwinSpec == TwinInit /\ [][TwinNext]_vars

---------------------------------------------------------------------------
\* Properties of RNN.forward (specification Spec)

T == Size1(input)
Batch == Size0(input)

\* column c (1-based) of the input tensor, as the (batch x 1) chunk of the loop
Column(c) == [r \in 1..Batch |-> <<input[r][c]>>]

\* C1: for every input of T >= 1 steps and every future >= 0, the returned
\* trace has exactly T + future columns.
C1_TraceHasTPlusFutureColumns ==
    (pc = "returned" /\ T >= 1) =>
        \A r \in 1..Batch : Len(ret.outputs[r]) = T + future

\* C2: steps T..T+future-1 are executed, each fed with the output of the step
\* before it and with the state that step produced.
C2_LookAheadFeedsBackOwnOutput ==
    (pc = "returned" /\ T >= 1) =>
        \A k \in T..(T + future - 1) :
            /\ k + 1 <= Len(steps)
            /\ steps[k + 1].x = steps[k].out
            /\ steps[k + 1].hin = steps[k].hout

\* C3: with future = 0 the returned trace has exactly T columns, column t being
\* the output of the step that consumed input column t.
C3_PlainTraceOneOutputPerInput ==
    (pc = "returned" /\ future = 0) =>
        /\ ret.ok
        /\ \A r \in 1..Batch : Len(ret.outputs[r]) = T
        /\ Len(steps) = T
        /\ \A c \in 1..T :
            /\ steps[c].x = Column(c)
            /\ \A r \in 1..Batch : ret.outputs[r][c] = steps[c].out[r][1]

C3_Witness ==
    /\ pc = "returned"
    /\ future = 0
    /\ T >= 2
    /\ Batch >= 2
    /\ \E c \in 1..T, d \in 1..T : ret.outputs[1][c] # ret.outputs[1][d]

\* C4: every call starts from the all-zero hidden state, whatever an earlier
\* call left behind.
C4_FirstStepUsesZeroState ==
    /\ (pc = "loop" /\ it = 0) => hidden = Zeros(Batch, rnn.hidden_size)
    /\ Len(steps) >= 1 => steps[1].hin = Zeros(Batch, rnn.hidden_size)

C4_Witness ==
    /\ last.valid
    /\ last.ret.ok
    /\ last.ret.hidden # Zeros(Batch, rnn.hidden_size)
    /\ Len(steps) >= 1
    /\ steps[1].hout # Zeros(Batch, rnn.hidden_size)

\* C5: step t uses the state produced by step t-1, and the input columns are
\* consumed in order 0,1,...,T-1, one per step.
C5_StateThreadedInputsInOrder ==
    /\ Len(steps) = it
    /\ Len(steps) <= T
    /\ \A k \in 1..Len(steps) :
        /\ steps[k].index = k - 1
        /\ steps[k].x = Column(k)
        /\ k >= 2 => steps[k].hin = steps[k - 1].hout
    /\ Len(steps) >= 1 => hidden = steps[Len(steps)].hout
    /\ pc = "returned" => Len(steps) = T

C5_Witness ==
    /\ pc = "returned"
    /\ Len(steps) >= 2
    /\ steps[2].hin # Zeros(Batch, rnn.hidden_size)
    /\ steps[2].hout # steps[2].hin
    /\ steps[1].x # steps[2].x

\* C6: forward returns the whole trace and the final state; the returned state
\* is the one the last step produced, whose projection is the last column.
C6_ReturnsTraceAndFinalState ==
    pc = "returned" =>
        /\ ret.ok
        /\ Len(steps) >= 1
        /\ ret.hidden = steps[Len(steps)].hout
        /\ \A r \in 1..Batch :
            /\ Len(ret.outputs[r]) = Len(steps)
            /\ \A c \in 1..Len(steps) : ret.outputs[r][c] = steps[c].out[r][1]
            /\ ret.outputs[r][Len(steps)] = Linear(rnn, ret.hidden)[r][1]

C6_Witness ==
    /\ pc = "returned"
    /\ Len(steps) >= 2
    /\ ret.hidden # Zeros(Batch, rnn.hidden_size)
    /\ ret.hidden # steps[Len(steps)].hin

\* C7: a call with the same parameters, input and future as the call before it
\* yields the same trace and the same final state.
C7_SameArgumentsSameResult ==
    (pc \in {"returned", "raised"} /\ last.valid /\ last.future = future) =>
        ret = last.ret

C7_Witness ==
    /\ pc = "returned"
    /\ last.valid
    /\ last.future = future
    /\ last.ret.ok
    /\ T >= 2
    /\ ret.hidden # Zeros(Batch, rnn.hidden_size)

\* C8: a call on an empty input sequence (T = 0) with future > 0 fails: it
\* ends by an exception and returns no trace.
C8_EmptyInputFails ==
    (T = 0 /\ future > 0) =>
        /\ pc # "returned"
        /\ ret = NoResult
        /\ outputs = <<>>

C8_Witness ==
    /\ T = 0
    /\ future > 0
    /\ pc = "raised"
    /\ rnn.input_size = 1

\* C9: an input step whose width differs from input_size makes the call raise,
\* and a call that raised returns nothing, not even the outputs collected.
C9_WrongWidthAbortsCall ==
    /\ (\E c \in 1..Len(Split(input)) : ~CellAccepts(rnn, Split(input)[c])) =>
            (pc # "returned" /\ ret = NoResult)
    /\ pc = "raised" => ret = NoResult

C9_Witness ==
    /\ pc = "raised"
    /\ T >= 1
    /\ rnn.input_size # 1
    /\ ret = NoResult

\* C16: during an unroll the trace only grows: after k steps it holds k
\* outputs, each step appends exactly one output at the end, and an output once
\* appended is neither changed nor removed before the trace is returned.
C16_TraceGrowsByAppending ==
    /\ [](Len(outputs) = Len(steps))
    /\ [][pc = "loop" =>
            /\ \/ outputs' = outputs
               \/ /\ Len(outputs') = Len(outputs) + 1
                  /\ SubSeq(outputs', 1, Len(outputs)) = outputs
                  /\ steps' # steps
            /\ pc' = "returned" =>
                    /\ outputs' = outputs
                    /\ \A r \in 1..Batch : \A c \in 1..Len(outputs) :
                            ret'.outputs[r][c] = outputs[c][r][1]]_vars

C16_Witness ==
    /\ pc = "loop"
    /\ Len(outputs) >= 2
    /\ outputs[1] # outputs[2]

---------------------------------------------------------------------------
\* Properties of batched calls (specification BatchSpec)

\* C15: the trace and final state computed for row r of a batch equal what a
\* call on row r alone returns.
C15_RowsAreIndependent ==
    (pc = "returned" /\ batch.row > 0) =>
        /\ ret.ok
        /\ batch.whole.ok
        /\ ret.outputs[1] = batch.whole.outputs[batch.row]
        /\ ret.hidden[1] = batch.whole.hidden[batch.row]

C15_Witness ==
    /\ pc = "returned"
    /\ batch.row >= 2
    /\ Len(ret.outputs[1]) >= 2
    /\ batch.whole.outputs[1] # batch.whole.outputs[batch.row]
    /\ batch.whole.hidden[1] # batch.whole.hidden[batch.row]
    /\ ret.hidden[1] = batch.whole.hidden[batch.row]

---------------------------------------------------------------------------
\* Properties of the training step (specification TrainSpec)

\* C14: the forward call never changes the parameters: they are the same at
\* every step of an unroll and when the call returns as when it started, and
\* the parameters change only after the closure's forward call has returned and
\* its backward pass is done, never while a call is unrolling.
C14_ParametersChangeOnlyBetweenCalls ==
    /\ []((pc = "loop" \/ tr.stage = "forward") => rnn = tr.before)
    /\ [](tr.stage = "backward" => pc = "returned" /\ rnn = tr.before)
    /\ [][pc = "loop" => rnn' = rnn]_vars
    /\ [][rnn' # rnn => /\ tr.stage = "backward"
                        /\ pc = "returned"
                        /\ pc' = "returned"]_vars

C14_Witness ==
    /\ pc = "loop"
    /\ it >= 2
    /\ tr.iters = 1
    /\ rnn # tr.first
    /\ rnn = tr.before

\* C17: in the closure the two tensors given to the loss have the same number
\* of time steps whenever the input is longer than 10.
C17_LossSlicesAligned ==
    (pc = "returned" /\ tr.stage \in {"backward", "raised"} /\ T > OutDrop) =>
        tr.out_len = tr.target_len

---------------------------------------------------------------------------
\* Properties of the data split (specification SplitSpec)

\* the normalised sample of channel c (counted from 1) at time t (from 1)
Sample(c, t) ==
    Normalize(ReadSignal(sp.shapes[c], sp.length), sp.lo, sp.hi)[t]

\* rows x and y of the channels after offset hold s_max - 1 steps each, x the
\* samples at time t and y the samples at time t + 1
OneStepAhead(x, y, offset, rows) ==
    /\ Len(x) = rows
    /\ Len(y) = rows
    /\ \A r \in 1..rows :
        /\ Len(x[r]) = sp.s_max - 1
        /\ Len(y[r]) = sp.s_max - 1
        /\ \A t \in 1..(sp.s_max - 1) :
            /\ x[r][t] = Sample(offset + r, t)
            /\ y[r][t] = Sample(offset + r, t + 1)
            /\ t + 1 <= sp.s_max - 1 => y[r][t] = x[r][t + 1]

\* C18: the split keeps the order and builds one-step-ahead targets: input and
\* target have s_max - 1 time steps, input[r][t] is the sample of channel r at
\* time t and target[r][t] its sample at time t + 1; likewise for test_input and
\* test_target on the remaining channels.
C18_SplitBuildsOneStepAheadTargets ==
    sp.stage = "done" =>
        /\ OneStepAhead(sp.input, sp.target, 0, TrainRows)
        /\ OneStepAhead(sp.test_input, sp.test_target, TrainRows,
                        NumChannels - TrainRows)

C18_Witness ==
    /\ sp.stage = "done"
    /\ sp.s_max >= 3
    /\ sp.length > sp.s_max
    /\ sp.input[1] # sp.target[1]
    /\ sp.input[1] # sp.input[2]
    /\ sp.test_input[1] # sp.test_target[1]

---------------------------------------------------------------------------
\* Properties of the GAN training loop (specification GanSpec)

BatchOrder == <<"sample", "train_d", "sample", "evaluate", "train_g">>

\* C19: in every batch the steps come in the order generator sample,
\* discriminator step, fresh sample from new noise, evaluation of that sample by
\* the updated discriminator, generator step; a batch makes exactly one
\* discriminator step and exactly one generator step.
C19_BatchStepsInOrder ==
    /\ gan.stage \in {"sampled", "d_trained", "evaluated", "g_trained"} =>
            gan.trace = SubSeq(BatchOrder, 1, Len(gan.trace))
    /\ gan.stage = "evaluated" =>
        /\ gan.d = gan.start.d + 1
        /\ gan.g = gan.start.g
        /\ gan.outputs = Discriminator(gan.start.d + 1, gan.fake_images)
        /\ gan.fake_images.g = gan.start.g
        /\ gan.fake_images.noise.draw = gan.d_fake.noise.draw + 1
        /\ gan.fake_score.d = gan.start.d
        /\ gan.fake_score.x = gan.d_fake
    /\ gan.stage \in {"g_trained", "monitored", "end_batch"} =>
        /\ gan.trace = BatchOrder
        /\ gan.d = gan.start.d + 1
        /\ gan.g = gan.start.g + 1
        /\ gan.g_loss.outputs = Discriminator(gan.d, gan.fake_images)
        /\ gan.fake_images.noise.draw # gan.d_fake.noise.draw

C19_Witness ==
    /\ gan.stage = "g_trained"
    /\ gan.epoch >= 1
    /\ gan.n >= 1
    /\ gan.fake_images.noise.z = gan.d_fake.noise.z
    /\ gan.g_loss.outputs.x.noise.draw = gan.d_loss.fake.x.noise.draw + 1

\* C20: for every positive number of batches the monitoring block runs exactly
\* twice in each epoch (and its condition never fails to evaluate).
C20_MonitoringTwicePerEpoch ==
    /\ gan.stage # "raised"
    /\ (gan.stage = "end_batch" /\ gan.n = gan.num_batches - 1) =>
            gan.monitors = 2

\* C21: the checkpoints are written only after the last batch of an epoch has
\* been trained, never in the middle of an epoch.
C21_SavedOnlyAtEpochEnd ==
    gan.saved.valid => gan.saved.n = gan.num_batches - 1

\* C22: in every batch, also a last batch smaller than batch_size, real_labels
\* (all ones) and fake_labels (all zeros) have as many rows as the batch of
\* images, and both generated batches have that number of samples.
C22_LabelsAndSamplesMatchBatch ==
    /\ gan.stage \in {"sampled", "d_trained", "evaluated", "g_trained"} =>
        /\ gan.images.rows = BatchRows(gan.n)
        /\ gan.real_labels = Ones(gan.images.rows, 1)
        /\ gan.fake_labels = Zeros(gan.images.rows, 1)
        /\ gan.fake_images.noise.rows = gan.images.rows
    /\ gan.stage \in {"d_trained", "evaluated", "g_trained"} =>
        /\ gan.d_fake.noise.rows = gan.images.rows
        /\ gan.d_loss.real_labels = Ones(gan.images.rows, 1)
        /\ gan.d_loss.fake_labels = Zeros(gan.images.rows, 1)
    /\ gan.stage \in {"evaluated", "g_trained"} =>
        gan.outputs.x.noise.rows = gan.images.rows
    /\ gan.stage = "g_trained" =>
        /\ gan.g_loss.outputs.x.noise.rows = gan.images.rows
        /\ gan.g_loss.labels = Ones(gan.images.rows, 1)

C22_Witness ==
    /\ gan.stage = "g_trained"
    /\ gan.num_batches >= 2
    /\ gan.n = gan.num_batches - 1
    /\ gan.last_rows < BatchSize
    /\ gan.images.rows = gan.last_rows
    /\ gan.outputs.x.noise.rows = gan.last_rows

\* C23: when the loop has run all its epochs, the checkpoints hold the
\* parameters the two networks have at the end of training: no optimizer step
\* comes after the last checkpoint write.
C23_CheckpointHoldsFinalParameters ==
    gan.stage = "finished" =>
        /\ gan.saved.valid
        /\ gan.saved.g = gan.g
        /\ gan.saved.d = gan.d

\* C25: a training step changes only its own network: train_discriminator
\* leaves the generator parameters as they are and train_generator leaves the
\* discriminator parameters as they are.
C25_StepChangesOnlyItsOwnNetwork ==
    [][/\ (gan.stage = "sampled" /\ gan'.stage = "d_trained") =>
            (gan'.g = gan.g /\ gan'.d # gan.d)
       /\ (gan.stage = "evaluated" /\ gan'.stage = "g_trained") =>
            (gan'.d = gan.d /\ gan'.g # gan.g)]_vars

C25_Witness ==
    /\ gan.stage = "g_trained"
    /\ gan.epoch >= 1
    /\ gan.fake_score.d = gan.start.d
    /\ gan.d_fake.g = gan.start.g
    /\ gan.fake_images.g = gan.start.g
    /\ gan.g_loss.outputs.d = gan.d
    /\ gan.g = gan.start.g + 1

---------------------------------------------------------------------------
\* Properties of the reads of the walk-forward cells (specification
\* WalkForwardSpec)

\* the position (from 0) that arr[k] of Python reads
PyPos(arr, k) == IF k < 0 THEN Len(arr) + k ELSE k

\* the positions (from 0) of the history h that the cell knd reads for the
\* prediction made at time t: history[t-1], or the slice history[t-5:t]
ReadPositions(knd, h, t) ==
    IF knd = "ma"
    THEN {k \in 0..(Len(h) - 1) :
            PyBound(h, t - Window) <= k /\ k < PyBound(h, t)}
    ELSE {PyPos(h, t - 1)}

\* the cell knd gives Python a negative index or slice start at time t
NegativeIndex(knd, t) == IF knd = "ma" THEN t - Window < 0 ELSE t - 1 < 0

\* the values at the positions ps of h, in the order of h
ValuesAt(h, ps) ==
    LET F[k \in 0..Len(h)] ==
            IF k = 0 THEN <<>>
            ELSE IF (k - 1) \in ps THEN Append(F[k - 1], h[k]) ELSE F[k - 1]
    IN  F[Len(h)]

\* every step computes its prediction from the values at ReadPositions
PredictionUsesReadPositions ==
    [][(bpc = "loop" /\ i < Len(test_signal)) =>
        LET t == Len(train_signal) + i
            xs == ValuesAt(history, ReadPositions(kind, history, t))
        IN  predictions'[i + 1] =
                CASE kind = "naive" -> xs[1]
                  [] kind = "ma" -> Mean(xs)
                  [] kind = "es" ->
                        IF i = 0 THEN Rat(xs[1])
                        ELSE RAdd(RMul(alpha, Rat(xs[1])),
                                  RMul(ROneMinus(alpha), predictions[i]))]_vars

\* C24: no walk-forward cell reads an entry of history that is not revealed
\* yet: for every train length and every step i, every position read for
\* predictions[i] lies in 0..t-1 with t = len(train_signal) + i, and no
\* negative index is given to history.
C24_ReadsOnlyRevealedHistory ==
    (bpc = "loop" /\ i < Len(test_signal)) =>
        LET t == Len(train_signal) + i
        IN  /\ ReadPositions(kind, history, t) \subseteq 0..(t - 1)
            /\ ~NegativeIndex(kind, t)

---------------------------------------------------------------------------
\* Properties of the naive baseline (specification BaselineSpec)

\* C10: for a non-empty train signal, predictions[0] is the last train value
\* and predictions[i] is test_signal[i-1] for i >= 1; history [1,2,3] with test
\* [4,5] gives predictions [3,4], every error being 1.
C10_NaivePredictsPreviousValue ==
    /\ (bpc \in {"loop", "done"} /\ Len(train_signal) >= 1) =>
        \A k \in 1..i :
            predictions[k] = IF k = 1 THEN train_signal[Len(train_signal)]
                             ELSE test_signal[k - 1]
    /\ bpc = "done" => i = Len(test_signal)
    /\ (bpc = "done" /\ train_signal = ScenarioTrain /\ test_signal = ScenarioTest) =>
        /\ predictions = <<3, 4>>
        /\ \A k \in 1..Len(test_signal) : test_signal[k] - predictions[k] = 1

C10_Witness ==
    /\ bpc = "done"
    /\ train_signal = ScenarioTrain
    /\ test_signal = ScenarioTest
    /\ predictions = <<3, 4>>

---------------------------------------------------------------------------
\* Properties of exponential_smoothing (specification SmoothingSpec)

\* C11: predictions[0] is the last train value, and for every i > 0
\* predictions[i] = alpha * (true value of step i-1) + (1 - alpha) * predictions[i-1].
C11_SmoothingRecurrence ==
    bpc \in {"loop", "done"} =>
        \A k \in 1..i :
            /\ (k = 1 /\ Len(train_signal) >= 1) =>
                    REq(predictions[1], Rat(train_signal[Len(train_signal)]))
            /\ k >= 2 =>
                    REq(predictions[k],
                        RAdd(RMul(alpha, Rat(test_signal[k - 1])),
                             RMul(ROneMinus(alpha), predictions[k - 1])))

C11_Witness ==
    /\ bpc = "done"
    /\ i >= 2
    /\ Len(train_signal) >= 1
    /\ alpha.num # alpha.den
    /\ ~REq(predictions[2], predictions[1])
    /\ ~REq(predictions[2], Rat(test_signal[1]))

---------------------------------------------------------------------------
\* Properties of the moving-average baseline (specification MovingAverageSpec)

\* the values observed before test step k (1-based): the train signal followed
\* by the test values revealed so far
Observed(k) == train_signal \o SubSeq(test_signal, 1, k - 1)

\* the mean of the last Window values of xs
MeanOfLast(xs) == Mean(SubSeq(xs, Len(xs) - Window + 1, Len(xs)))

\* C13 as stated: for every train and test signal, at every test step the
\* prediction is the mean of exactly the 5 most recent observed values.
C13_MeanOfFiveMostRecent ==
    bpc \in {"loop", "done"} =>
        \A k \in 1..i :
            /\ Len(Observed(k)) >= Window
            /\ REq(predictions[k], MeanOfLast(Observed(k)))

\* C13 amended: at every test step before which at least 5 values have been
\* observed, the prediction is the mean of the 5 most recent observed values.
C13_MeanOfFiveOnceFiveObserved ==
    bpc \in {"loop", "done"} =>
        \A k \in 1..i :
            Len(Observed(k)) >= Window =>
                REq(predictions[k], MeanOfLast(Observed(k)))

C13_Witness ==
    /\ bpc = "done"
    /\ i >= 2
    /\ Len(train_signal) >= Window
    /\ ~REq(predictions[1], predictions[2])
    /\ REq(predictions[2], MeanOfLast(Observed(2)))

---------------------------------------------------------------------------
\* Properties of two runs of a walk-forward cell (specification TwinSpec)

\* the two test signals agree on the indices below k (0-based)
AgreeBelow(k) == \A j \in 1..k : test_signal[j] = twin.test_signal[j]

\* the two runs made the same prediction at step k (1-based): the same number,
\* or nan in both
SamePrediction(k) ==
    LET a == predictions[k]
        b == twin.predictions[k]
    IN  IF kind = "naive" THEN a = b
        ELSE (a.den = 0 /\ b.den = 0) \/ REq(a, b)

\* C12: in each of the three baselines predictions[i] is made before
\* test_signal[i] is written, so two runs whose test signals agree on the
\* indices < i produce the same predictions[i].
C12_PredictionIgnoresLaterTruth ==
    bpc \in {"loop", "done"} =>
        \A k \in 1..i :
            AgreeBelow(k - 1) => SamePrediction(k)

\* the same for two test signals of one length
C12_SameLengthRunsAgree ==
    (bpc \in {"loop", "done"} /\ Len(test_signal) = Len(twin.test_signal)) =>
        \A k \in 1..i :
            AgreeBelow(k - 1) => SamePrediction(k)

---------------------------------------------------------------------------
TypeOK ==
    /\ pc \in {"idle", "loop", "returned", "raised"}
    /\ it \in 0..(MaxT + 1)
    /\ future \in 0..MaxFuture
    /\ bpc \in {"off", "start", "loop", "done"}

====
